---- MODULE Spec2Model ----
(***************************************************************************)
(* Model of app.py: the /api/analyze handler over the module-level          *)
(* DataFrame df.  One request is a process that walks through the handler:  *)
(* parameter parsing, the date mask, the early empty return, DBSCAN.fit     *)
(* (parameter validation, neighbourhoods, the label expansion loop) and the *)
(* response.                                                                *)
(*                                                                          *)
(* Time is counted in ticks of 1/SubSecond second since 2025-01-01 00:00:00 *)
(* (pandas timestamps carry sub-second precision).  A calendar date is its  *)
(* day ordinal since 2025-01-01.  Coordinates lie on the equator, longitude *)
(* in units of 0.0001 degree, where the haversine distance of two points is *)
(* |dlon| radians, i.e. |dlon| * 11.1195 m per unit.  Epsilon is in whole   *)
(* metres.                                                                  *)
(***************************************************************************)
EXTENDS Integers, Sequences, FiniteSets, TLC

VARIABLES
    df,           \* the shared DataFrame loaded at import (rows in file order)
    request,      \* request[r]: the JSON body of request r
    pc,           \* pc[r]: where request r is in analyze()
    args,         \* args[r]: epsilon_meters, min_samples, start_date, end_date
    filtered_df,  \* filtered_df[r]: the request's private copy of the masked rows
    db,           \* db[r]: the request's DBSCAN object while fit() runs
    response      \* response[r]: what analyze() returned

vars == <<df, request, pc, args, filtered_df, db, response>>

Requests == DOMAIN pc

---------------------------------------------------------------------------
(* Bounds of the model *)

SubSecond == 2          \* ticks per second
MaxLon == 3             \* longitudes 0..MaxLon (units of 0.0001 degree)
MaxGeoRecords == 3      \* rows of df in the clustering specification
MaxDateRecords == 2     \* rows of df in the date-window specification
MaxConcRecords == 2     \* rows of df in the concurrent specification

(* Program constants *)

SecondsPerDay == 86400  \* timedelta(days=1)
Jan1 == 0               \* datetime(2025, 1, 1) as a day ordinal
Dec31 == 364            \* datetime(2025, 12, 31, ...) as a day ordinal
DefaultEpsilon == 50    \* params.get('epsilon', 50)
DefaultMinPoints == 10  \* params.get('minPoints', 10)
MetersE4PerUnit == 111195 \* 0.0001 degree of arc at 6371.0088 km per radian, in 0.0001 m
NOISE == -1             \* sklearn's label of a sample in no cluster

---------------------------------------------------------------------------
(* Time *)

At(day, sec, sub) == (day * SecondsPerDay + sec) * SubSecond + sub

\* pd.to_datetime('YYYY-MM-DD'): midnight of that day
to_datetime(day) == At(day, 0, 0)

timedelta(days, seconds) == (days * SecondsPerDay + seconds) * SubSecond

datetime(day, h, m, s) == At(day, h * 3600 + m * 60 + s, 0)

---------------------------------------------------------------------------
(* JSON values: a key of the body is absent/null, or carries a value *)

Absent == [has |-> FALSE, val |-> 0]
Given(v) == [has |-> TRUE, val |-> v]

\* params.get(key, default)
Get(field, default) == IF field.has THEN field.val ELSE default

Row(ts, lon) == [date |-> ts, latitude |-> 0, longitude |-> lon]

NoArgs == [epsilon_meters |-> 0, min_samples |-> 0, start_date |-> 0, end_date |-> 0]
NoDb == [labels |-> <<>>, neighborhoods |-> <<>>, i |-> 0, label_num |-> 0,
         stack |-> <<>>, cur |-> 0]
NoResponse == [status |-> "none", points |-> <<>>,
               stats |-> [total |-> 0, n_clusters |-> 0, noise |-> 0]]

---------------------------------------------------------------------------
(* Sequence helpers *)

Abs(x) == IF x < 0 THEN -x ELSE x

SeqsUpTo(S, n) == UNION {[1..k -> S] : k \in 0..n}

Min(S) == CHOOSE x \in S : \A y \in S : x <= y

RECURSIVE Ascending(_)
Ascending(S) == IF S = {} THEN <<>> ELSE <<Min(S)>> \o Ascending(S \ {Min(S)})

Range(s) == {s[k] : k \in 1..Len(s)}

Count(s, v) == Cardinality({k \in 1..Len(s) : s[k] = v})

RemoveAt(s, k) == SubSeq(s, 1, k - 1) \o SubSeq(s, k + 1, Len(s))

---------------------------------------------------------------------------
(* analyze(), lines 23-43: parameters and the date window *)

\* mutant: a bound supplied alone is used, the default filling the other
WindowOneSided(body) ==
    [start_date |-> IF body.startDate.has THEN to_datetime(body.startDate.val)
                    ELSE datetime(Jan1, 0, 0, 0),
     end_date |-> IF body.endDate.has
                  THEN to_datetime(body.endDate.val) + timedelta(1, 0) - timedelta(0, 1)
                  ELSE datetime(Dec31, 23, 59, 59)]

Window(body) ==
    IF body.startDate.has /\ body.endDate.has
    THEN [start_date |-> to_datetime(body.startDate.val),
          end_date |-> to_datetime(body.endDate.val) + timedelta(1, 0) - timedelta(0, 1)]
    ELSE [start_date |-> datetime(Jan1, 0, 0, 0),
          end_date |-> datetime(Dec31, 23, 59, 59)]

ParseArgs(body) ==
    [epsilon_meters |-> Get(body.epsilon, DefaultEpsilon),
     min_samples |-> Get(body.minPoints, DefaultMinPoints),
     start_date |-> Window(body).start_date,
     end_date |-> Window(body).end_date]

Receive(r) ==
    /\ pc[r] = "receive"
    /\ args' = [args EXCEPT ![r] = ParseArgs(request[r])]
    /\ pc' = [pc EXCEPT ![r] = "filter"]
    /\ UNCHANGED <<df, request, filtered_df, db, response>>

---------------------------------------------------------------------------
(* analyze(), lines 46-53: the mask, the copy and the early empty return *)

InMask(row, a) == row.date >= a.start_date /\ row.date <= a.end_date

Masked(frame, a) == SelectSeq(frame, LAMBDA row : InMask(row, a))

EmptyResponse == [status |-> "ok", points |-> <<>>,
                  stats |-> [total |-> 0, n_clusters |-> 0, noise |-> 0]]

ErrorResponse == [status |-> "error", points |-> <<>>,
                  stats |-> [total |-> 0, n_clusters |-> 0, noise |-> 0]]

\* mutant: the mask is applied to the shared frame itself
FilterInPlace(r) ==
    /\ pc[r] = "filter"
    /\ df' = Masked(df, args[r])
    /\ filtered_df' = [filtered_df EXCEPT ![r] = Masked(df, args[r])]
    /\ IF Len(Masked(df, args[r])) = 0
       THEN /\ response' = [response EXCEPT ![r] = EmptyResponse]
            /\ pc' = [pc EXCEPT ![r] = "done"]
       ELSE /\ pc' = [pc EXCEPT ![r] = "fit"]
            /\ UNCHANGED response
    /\ UNCHANGED <<request, args, db>>

\* mutant: no early return, so that fit() raises on a frame of no rows
FilterNoEarlyReturn(r) ==
    /\ pc[r] = "filter"
    /\ filtered_df' = [filtered_df EXCEPT ![r] = Masked(df, args[r])]
    /\ IF Len(Masked(df, args[r])) = 0
       THEN /\ response' = [response EXCEPT ![r] = ErrorResponse]
            /\ pc' = [pc EXCEPT ![r] = "done"]
       ELSE /\ pc' = [pc EXCEPT ![r] = "fit"]
            /\ UNCHANGED response
    /\ UNCHANGED <<df, request, args, db>>

Filter(r) ==
    /\ pc[r] = "filter"
    /\ filtered_df' = [filtered_df EXCEPT ![r] = Masked(df, args[r])]
    /\ IF Len(Masked(df, args[r])) = 0
       THEN /\ response' = [response EXCEPT ![r] = EmptyResponse]
            /\ pc' = [pc EXCEPT ![r] = "done"]
       ELSE /\ pc' = [pc EXCEPT ![r] = "fit"]
            /\ UNCHANGED response
    /\ UNCHANGED <<df, request, args, db>>

---------------------------------------------------------------------------
(* analyze(), lines 57-67: DBSCAN(eps, min_samples, haversine).fit *)

\* haversine(p, q) <= epsilon_rad, for epsilon_rad = (eps / 1000) / 6371.0088 and
\* p, q on the equator, where haversine(p, q) is |p.longitude - q.longitude| in radians
WithinEps(p, q, eps) ==
    Abs(p.longitude - q.longitude) * MetersE4PerUnit <= eps * 10000

\* radius_neighbors: for each sample, the samples within eps of it, itself included
Neighborhoods(frame, eps) ==
    [k \in 1..Len(frame) |-> {j \in 1..Len(frame) : WithinEps(frame[k], frame[j], eps)}]

\* mutant: the sample itself is not counted among its neighbours
IsCoreExcludingSelf(nbh, k, min_samples) == Cardinality(nbh[k]) - 1 >= min_samples

\* mutant: = for >=
IsCoreExact(nbh, k, min_samples) == Cardinality(nbh[k]) = min_samples

\* core_samples: n_neighbors >= min_samples
IsCore(nbh, k, min_samples) == Cardinality(nbh[k]) >= min_samples

\* the parameter constraints fit() checks first: eps > 0, min_samples >= 1
\* (every scikit-learn release rejects eps <= 0; releases before 1.1 did not check
\* min_samples, which no property below depends on)
ValidParams(eps, min_samples) == eps > 0 /\ min_samples >= 1

FitStart(r) ==
    /\ pc[r] = "fit"
    /\ IF ValidParams(args[r].epsilon_meters, args[r].min_samples)
       THEN /\ db' = [db EXCEPT ![r] =
                        [labels |-> [k \in 1..Len(filtered_df[r]) |-> NOISE],
                         neighborhoods |->
                             Neighborhoods(filtered_df[r], args[r].epsilon_meters),
                         i |-> 1, label_num |-> 0, stack |-> <<>>, cur |-> 0]]
            /\ pc' = [pc EXCEPT ![r] = "scan"]
            /\ UNCHANGED response
       ELSE /\ response' = [response EXCEPT ![r] = ErrorResponse]
            /\ pc' = [pc EXCEPT ![r] = "done"]
            /\ UNCHANGED db
    /\ UNCHANGED <<df, request, args, filtered_df>>

\* dbscan_inner, the for loop: skip labelled and non-core samples, start a
\* depth-first search at an unlabelled core sample
ScanStep(r) ==
    /\ pc[r] = "scan"
    /\ LET d == db[r] IN
       IF d.i > Len(d.labels)
       THEN /\ pc' = [pc EXCEPT ![r] = "respond"]
            /\ UNCHANGED db
       ELSE IF d.labels[d.i] # NOISE
               \/ ~IsCore(d.neighborhoods, d.i, args[r].min_samples)
            THEN /\ db' = [db EXCEPT ![r].i = d.i + 1]
                 /\ UNCHANGED pc
            ELSE /\ db' = [db EXCEPT ![r].cur = d.i]
                 /\ pc' = [pc EXCEPT ![r] = "dfs"]
    /\ UNCHANGED <<df, request, args, filtered_df, response>>

\* the neighbours of a core sample that are still unlabelled, as pushed
Pushed(labels, nbh, k) == Ascending({v \in nbh[k] : labels[v] = NOISE})

\* mutant: the neighbours of a sample that is not core are pushed as well
VisitExpandAll(d, min_samples) ==
    IF d.labels[d.cur] = NOISE
    THEN LET lab == [d.labels EXCEPT ![d.cur] = d.label_num] IN
         [d EXCEPT !.labels = lab,
                   !.stack = d.stack \o Pushed(lab, d.neighborhoods, d.cur)]
    ELSE d

\* one turn of the while loop on the sample cur: label it if unlabelled, and
\* if it is core push its unlabelled neighbours
Visit(d, min_samples) ==
    IF d.labels[d.cur] = NOISE
    THEN LET lab == [d.labels EXCEPT ![d.cur] = d.label_num] IN
         [d EXCEPT !.labels = lab,
                   !.stack = IF IsCore(d.neighborhoods, d.cur, min_samples)
                             THEN d.stack \o Pushed(lab, d.neighborhoods, d.cur)
                             ELSE d.stack]
    ELSE d

\* dbscan_inner, the while loop: visit cur, then leave the loop on an empty
\* stack or take the next sample off it.  The order in which the ball tree
\* returns neighbours is not specified, so any stacked sample may come next.
Expand(r) ==
    /\ pc[r] = "dfs"
    /\ LET d == Visit(db[r], args[r].min_samples) IN
       IF d.stack = <<>>
       THEN /\ db' = [db EXCEPT ![r] =
                        [d EXCEPT !.label_num = d.label_num + 1, !.i = d.i + 1, !.cur = 0]]
            /\ pc' = [pc EXCEPT ![r] = "scan"]
       ELSE /\ \E k \in 1..Len(d.stack) :
                 db' = [db EXCEPT ![r] =
                          [d EXCEPT !.cur = d.stack[k], !.stack = RemoveAt(d.stack, k)]]
            /\ UNCHANGED pc
    /\ UNCHANGED <<df, request, args, filtered_df, response>>

---------------------------------------------------------------------------
(* analyze(), lines 70-93: the cluster column, the statistics, the response *)

WithCluster(frame, labels) ==
    [k \in 1..Len(frame) |->
        [date |-> frame[k].date, latitude |-> frame[k].latitude,
         longitude |-> frame[k].longitude, cluster |-> labels[k]]]

\* mutant: the noise label is counted as a cluster
ClustersFoundWithNoise(labels) == Cardinality(Range(labels))

\* len(set(labels)) - (1 if -1 in labels else 0)
ClustersFound(labels) ==
    Cardinality(Range(labels)) - (IF NOISE \in Range(labels) THEN 1 ELSE 0)

\* list(labels).count(-1)
NoisePoints(labels) == Count(labels, NOISE)

Results(frame) ==
    [k \in 1..Len(frame) |->
        [lat |-> frame[k].latitude, lng |-> frame[k].longitude,
         cluster |-> frame[k].cluster]]

OkResponse(frame, labels) ==
    [status |-> "ok",
     points |-> Results(WithCluster(frame, labels)),
     stats |-> [total |-> Len(frame),
                n_clusters |-> ClustersFound(labels),
                noise |-> NoisePoints(labels)]]

Respond(r) ==
    /\ pc[r] = "respond"
    /\ filtered_df' = [filtered_df EXCEPT ![r] = WithCluster(filtered_df[r], db[r].labels)]
    /\ response' = [response EXCEPT ![r] = OkResponse(filtered_df[r], db[r].labels)]
    /\ pc' = [pc EXCEPT ![r] = "done"]
    /\ UNCHANGED <<df, request, args, db>>

---------------------------------------------------------------------------
(* The handler run from start to end on its own, with the stack taken last   *)
(* in, first out as dbscan_inner does                                        *)

RECURSIVE DepthFirst(_, _, _, _, _, _)
DepthFirst(labels, stack, cur, nbh, min_samples, label_num) ==
    LET lab == IF labels[cur] = NOISE THEN [labels EXCEPT ![cur] = label_num] ELSE labels
        st == IF labels[cur] = NOISE /\ IsCore(nbh, cur, min_samples)
              THEN stack \o Pushed(lab, nbh, cur)
              ELSE stack
    IN IF st = <<>>
       THEN lab
       ELSE DepthFirst(lab, SubSeq(st, 1, Len(st) - 1), st[Len(st)], nbh, min_samples,
                       label_num)

RECURSIVE DbscanInner(_, _, _, _, _)
DbscanInner(labels, i, nbh, min_samples, label_num) ==
    IF i > Len(labels)
    THEN labels
    ELSE IF labels[i] # NOISE \/ ~IsCore(nbh, i, min_samples)
         THEN DbscanInner(labels, i + 1, nbh, min_samples, label_num)
         ELSE DbscanInner(DepthFirst(labels, <<>>, i, nbh, min_samples, label_num),
                          i + 1, nbh, min_samples, label_num + 1)

FitLabels(frame, eps, min_samples) ==
    DbscanInner([k \in 1..Len(frame) |-> NOISE], 1, Neighborhoods(frame, eps),
                min_samples, 0)

AnalyzeAlone(frame, body) ==
    LET a == ParseArgs(body)
        f == Masked(frame, a)
    IN IF Len(f) = 0
       THEN EmptyResponse
       ELSE IF ~ValidParams(a.epsilon_meters, a.min_samples)
            THEN ErrorResponse
            ELSE OkResponse(f, FitLabels(f, a.epsilon_meters, a.min_samples))

---------------------------------------------------------------------------
(* Specifications *)

Next ==
    \/ \E r \in Requests : Receive(r)
    \/ \E r \in Requests : Filter(r)
    \/ \E r \in Requests : FitStart(r)
    \/ \E r \in Requests : ScanStep(r)
    \/ \E r \in Requests : Expand(r)
    \/ \E r \in Requests : Respond(r)

Start(reqs) ==
    /\ pc = [r \in reqs |-> "receive"]
    /\ args = [r \in reqs |-> NoArgs]
    /\ filtered_df = [r \in reqs |-> <<>>]
    /\ db = [r \in reqs |-> NoDb]
    /\ response = [r \in reqs |-> NoResponse]

Body(eps, minp, sd, ed) ==
    [epsilon |-> eps, minPoints |-> minp, startDate |-> sd, endDate |-> ed]

(* Clustering: one request over the default window, all rows in 2025 *)

EpsSet == {Given(-1), Given(0), Given(12), Given(25), Absent}
MinSet == {Given(0), Given(1), Given(2), Given(3), Absent}

GeoRows == {Row(datetime(Jan1, 12, 0, 0), lon) : lon \in 0..MaxLon}

\* Two dense ends and a sparse middle: with eps 12 and min_samples 4 the rows at
\* longitude 1 and 3 are core, and the row at 2 is within eps of both
BorderLons == <<0, 0, 1, 2, 3, 4, 4>>
BorderStores ==
    {[k \in 1..7 |-> Row(datetime(Jan1, 12, 0, 0), s[k])] :
        s \in {t \in [1..7 -> 0..4] : \A v \in 0..4 : Count(t, v) = Count(BorderLons, v)}}

Init ==
    /\ \/ /\ df \in SeqsUpTo(GeoRows, MaxGeoRecords)
          /\ request \in [{1} -> {Body(e, m, Absent, Absent) : e \in EpsSet, m \in MinSet}]
       \/ /\ df \in BorderStores
          /\ request = [r \in {1} |-> Body(Given(12), Given(4), Absent, Absent)]
    /\ Start({1})

Spec == Init /\ [][Next]_vars

(* Date window: one request, rows stamped around the ends of the windows *)

RowDays == {Jan1, Dec31, Dec31 + 1}
RowTimes ==
    UNION {{datetime(d, 0, 0, 0), datetime(d, 23, 59, 59),
            datetime(d, 23, 59, 59) + (SubSecond - 1)} : d \in RowDays}
DateRows == {Row(t, 0) : t \in RowTimes}
DateSet == {Absent, Given(Jan1), Given(Dec31)}

InitDates ==
    /\ df \in SeqsUpTo(DateRows, MaxDateRecords)
    /\ request \in [{1} -> {Body(e, m, sd, ed) :
                                e \in {Given(-1), Given(12)}, m \in {Given(0), Given(1)},
                                sd \in DateSet, ed \in DateSet}]
    /\ Start({1})

SpecDates == InitDates /\ [][Next]_vars

(* Two requests in flight over the same store *)

ConcRows == {Row(datetime(d, 12, 0, 0), lon) : d \in {Jan1, Dec31}, lon \in {0, 2}}
ConcBodies ==
    {Body(e, m, sd, sd) : e \in {Given(12), Given(25)}, m \in {Given(1), Given(2)},
                          sd \in {Absent, Given(Jan1)}}

InitConcurrent ==
    /\ df \in SeqsUpTo(ConcRows, MaxConcRecords)
    /\ request \in [{1, 2} -> ConcBodies]
    /\ Start({1, 2})

SpecConcurrent == InitConcurrent /\ [][Next]_vars

---------------------------------------------------------------------------
(* Properties *)

Done(r) == pc[r] = "done"

\* the mask of request r has been applied
Masking(r) == pc[r] \notin {"receive", "filter"}

\* the rows of a frame without the cluster column
Plain(frame) ==
    [k \in 1..Len(frame) |->
        [date |-> frame[k].date, latitude |-> frame[k].latitude,
         longitude |-> frame[k].longitude]]

Epsilon(r) == Get(request[r].epsilon, DefaultEpsilon)
MinSamples(r) == Get(request[r].minPoints, DefaultMinPoints)
BothDates(r) == request[r].startDate.has /\ request[r].endDate.has

\* C1: a request whose epsilon is < 0 or whose minSamples is < 1 ends in an
\* InvalidParameter error and returns no result, not even the empty one,
\* whatever the date window
C1_InvalidParameterRejected ==
    \A r \in Requests :
        Done(r) /\ (Epsilon(r) < 0 \/ MinSamples(r) < 1) => response[r].status = "error"

\* C2: with both dates supplied the filtered rows are exactly the rows stamped
\* from startDate 00:00:00 to endDate 23:59:59, in store order, so that every
\* row stamped at any time of endDate's day is among them
C2_EndDayInclusive ==
    \A r \in Requests :
        Masking(r) /\ BothDates(r) =>
            LET sd == request[r].startDate.val
                ed == request[r].endDate.val
            IN /\ Plain(filtered_df[r]) =
                     SelectSeq(df, LAMBDA row : /\ row.date >= datetime(sd, 0, 0, 0)
                                                /\ row.date <= datetime(ed, 23, 59, 59))
               /\ \A k \in 1..Len(df) :
                     /\ df[k].date >= datetime(sd, 0, 0, 0)
                     /\ df[k].date >= datetime(ed, 0, 0, 0)
                     /\ df[k].date < datetime(ed + 1, 0, 0, 0)
                     => df[k] \in Range(Plain(filtered_df[r]))

\* C3: a request with epsilon = 0, minSamples >= 1 and a non-empty filtered set
\* returns a complete result, one point per filtered row, and never an error
C3_ZeroEpsilonAccepted ==
    \A r \in Requests :
        Done(r) /\ Epsilon(r) = 0 /\ MinSamples(r) >= 1 /\ Len(filtered_df[r]) > 0 =>
            /\ response[r].status = "ok"
            /\ Len(response[r].points) = Len(filtered_df[r])

\* no row of the store is stamped within the window of request r
NoRowInWindow(r) ==
    \A k \in 1..Len(df) :
        df[k].date < args[r].start_date \/ df[k].date > args[r].end_date

\* C4: whenever no row falls in the date window, a window whose start is after
\* its end included, analyze returns the empty result and never an error
C4_EmptyWindowEmptyResult ==
    \A r \in Requests :
        Done(r) /\ NoRowInWindow(r) =>
            /\ response[r].status = "ok"
            /\ response[r].points = <<>>
            /\ response[r].stats = [total |-> 0, n_clusters |-> 0, noise |-> 0]

\* C4 witness: a request over a non-empty store whose window starts after it
\* ends, with a rejected epsilon, has returned the empty result
C4_Witness ==
    \E r \in Requests :
        /\ Done(r) /\ BothDates(r) /\ Len(df) > 0
        /\ args[r].start_date > args[r].end_date
        /\ Epsilon(r) < 0
        /\ response[r].status = "ok" /\ response[r].stats.total = 0

\* C8: with startDate or endDate omitted the window is 2025-01-01 00:00:00
\* through 2025-12-31 23:59:59 inclusive, and a bound supplied alone is not used
C8_DefaultWindow ==
    \A r \in Requests :
        ~BothDates(r) =>
            /\ pc[r] # "receive" =>
                  /\ args[r].start_date = At(0, 0, 0)
                  /\ args[r].end_date = At(364, 86399, 0)
            /\ Masking(r) =>
                  Plain(filtered_df[r]) =
                      SelectSeq(df, LAMBDA row : /\ row.date >= At(0, 0, 0)
                                                 /\ row.date <= At(364, 86399, 0))

\* C8 witness: startDate 2025-12-31 supplied alone, and a row of 2025-01-01 is
\* in the filtered set
C8_Witness ==
    \E r \in Requests :
        /\ Masking(r)
        /\ request[r].startDate = Given(Dec31) /\ ~request[r].endDate.has
        /\ \E k \in 1..Len(filtered_df[r]) : filtered_df[r][k].date < datetime(Dec31, 0, 0, 0)

\* request r has returned a result object
Ok(r) == Done(r) /\ response[r].status = "ok"

Clusters(points) == {points[k].cluster : k \in 1..Len(points)}

\* C5: in the result every point's label is the noise sentinel -1 or an integer
\* in 0..n_clusters-1, and n_clusters is the number of distinct labels other
\* than the sentinel
C5_LabelsWellFormed ==
    \A r \in Requests :
        Ok(r) =>
            LET pts == response[r].points
                n == response[r].stats.n_clusters
            IN /\ \A k \in 1..Len(pts) : pts[k].cluster = -1 \/ pts[k].cluster \in 0..(n - 1)
               /\ n = Cardinality(Clusters(pts) \ {-1})

\* C5 witness: a result with a cluster and a noise point
C5_Witness ==
    \E r \in Requests :
        /\ Ok(r) /\ Epsilon(r) > 0 /\ MinSamples(r) >= 1
        /\ response[r].stats.n_clusters >= 1
        /\ -1 \in Clusters(response[r].points)

\* C6: for one store, date window and minSamples, and two radii eps1 <= eps2,
\* stats.noise with eps2 is at most stats.noise with eps1
C6_NoiseMonotone ==
    \A r1, r2 \in Requests :
        /\ Ok(r1) /\ Ok(r2)
        /\ request[r1].startDate = request[r2].startDate
        /\ request[r1].endDate = request[r2].endDate
        /\ MinSamples(r1) = MinSamples(r2)
        /\ Epsilon(r1) <= Epsilon(r2)
        => response[r2].stats.noise <= response[r1].stats.noise

\* C6 witness: two finished requests that differ in the radius alone, the
\* larger radius with fewer noise points
C6_Witness ==
    \E r1, r2 \in Requests :
        /\ Ok(r1) /\ Ok(r2)
        /\ request[r1].startDate = request[r2].startDate
        /\ request[r1].endDate = request[r2].endDate
        /\ MinSamples(r1) = MinSamples(r2)
        /\ Epsilon(r1) < Epsilon(r2)
        /\ response[r2].stats.noise < response[r1].stats.noise

\* two label arrays split the points into the same clusters and the same noise
SamePartition(a, b) ==
    /\ Len(a) = Len(b)
    /\ \A i, j \in 1..Len(a) : (a[i] = a[j]) <=> (b[i] = b[j])
    /\ \A i \in 1..Len(a) : (a[i] = -1) <=> (b[i] = -1)

\* C7: with the points scanned in store order, the partition into clusters and
\* noise is the same whatever the order in which samples are taken off the
\* frontier: it is the partition of the last in, first out order
C7_PartitionOrderFree ==
    \A r \in Requests :
        pc[r] = "respond" \/ (Ok(r) /\ Len(response[r].points) > 0) =>
            SamePartition(db[r].labels,
                          FitLabels(Plain(filtered_df[r]), args[r].epsilon_meters,
                                    args[r].min_samples))

\* C7 witness: a finished expansion of two clusters of seven points that meet
\* in a sample within epsilon of a core sample of each
C7_Witness ==
    \E r \in Requests :
        /\ Ok(r) /\ response[r].stats.total = 7
        /\ response[r].stats.n_clusters = 2
        /\ \E b, c1, c2 \in 1..7 :
              /\ db[r].labels[c1] # db[r].labels[c2]
              /\ IsCore(db[r].neighborhoods, c1, args[r].min_samples)
              /\ IsCore(db[r].neighborhoods, c2, args[r].min_samples)
              /\ b \in db[r].neighborhoods[c1] /\ b \in db[r].neighborhoods[c2]

\* row k of the frame has at least min rows within eps of it, itself included
CoreRow(frame, k, eps, min) ==
    Cardinality({j \in 1..Len(frame) : WithinEps(frame[k], frame[j], eps)}) >= min

\* row k of the frame lies within eps of a core row
NearCore(frame, k, eps, min) ==
    \E c \in 1..Len(frame) : CoreRow(frame, c, eps, min) /\ WithinEps(frame[k], frame[c], eps)

C10_NoiseIff ==
    \A r \in Requests :
        Ok(r) /\ Epsilon(r) > 0 /\ MinSamples(r) >= 1 =>
            \A k \in 1..Len(response[r].points) :
                response[r].points[k].cluster = -1 <=>
                    /\ ~CoreRow(filtered_df[r], k, Epsilon(r), MinSamples(r))
                    /\ ~NearCore(filtered_df[r], k, Epsilon(r), MinSamples(r))

C10_Reached ==
    \A r \in Requests :
        pc[r] = "dfs" =>
            \A k \in 1..Len(db[r].labels) :
                /\ db[r].labels[k] # -1 => db'[r].labels[k] = db[r].labels[k]
                /\ db[r].labels[k] = -1 /\ db'[r].labels[k] # -1 =>
                      /\ db'[r].labels[k] = db[r].label_num
                      /\ \E c \in 1..Len(db[r].labels) :
                            /\ CoreRow(filtered_df[r], c, Epsilon(r), MinSamples(r))
                            /\ WithinEps(filtered_df[r][k], filtered_df[r][c], Epsilon(r))
                            /\ db'[r].labels[c] = db[r].label_num

\* C10: for epsilon > 0 and minSamples >= 1 a point is noise in the result if
\* and only if fewer than minSamples points lie within epsilon of it and it is
\* within epsilon of no core point; a point left as noise that the expansion
\* of a core point reaches takes that core point's cluster id and keeps it
C10_NoiseOrBorder == [](C10_NoiseIff) /\ [][C10_Reached]_vars

\* C10 witness: the first row scanned is not core, was passed over as noise,
\* and carries a cluster id in the result
C10_Witness ==
    \E r \in Requests :
        /\ Ok(r) /\ Len(response[r].points) > 1
        /\ ~CoreRow(filtered_df[r], 1, Epsilon(r), MinSamples(r))
        /\ response[r].points[1].cluster # -1

C9_StoreUnchanged == df' = df

C9_AsAlone == \A r \in Requests : Done(r) => response[r] = AnalyzeAlone(df, request[r])

\* C9: no step of analyze changes the shared store, and in every interleaving
\* of two requests each returns the result it returns when run alone
C9_ReadOnlyStore == [][C9_StoreUnchanged]_vars /\ [](C9_AsAlone)

\* C9 witness: one request has returned points while the other is in the
\* middle of its clustering of rows of the same store
C9_Witness ==
    \E r1, r2 \in Requests :
        /\ r1 # r2
        /\ Ok(r1) /\ response[r1].stats.total > 0
        /\ pc[r2] = "dfs" /\ Len(filtered_df[r2]) > 0

====
